---------------------------- MODULE Spec2Model ----------------------------
(***************************************************************************)
(* Model of the short-code allocation and resolution engine of the URL     *)
(* shortener (src/url_shortener/src/url_shortener.rs, duplicated in        *)
(* src/url_shortener/src/main.rs).                                         *)
(*                                                                         *)
(* Every SQL statement is one atomic step of the store; the awaits between *)
(* them are the points where concurrent calls interleave.  A call of       *)
(* register is a process p with a program counter pc[p]:                   *)
(*   "idle"    not inside register                                         *)
(*   "read"    at line 47, before the SELECT of get_short_code_length      *)
(*   "insert"  at lines 51-56, candidate generated, before the INSERT      *)
(*   "save"    at line 73, before the upsert of save_short_code_length     *)
(*   "done"    the Result is computed and on its way to the caller         *)
(* Any statement may fail with a store fault at any time.                  *)
(*                                                                         *)
(* Spec         concurrent register calls                                  *)
(* ResolveSpec  register calls and lookup calls side by side               *)
(* SatSpec      register calls on a registry whose default-length codes    *)
(*              are all taken and whose length upsert always fails         *)
(* SoloSpec     register calls one at a time on a store without faults,    *)
(*              from registries whose codes are no longer than the setting *)
(* TodoSpec     the commands of todo_cli (src/todo_cli/src/main.rs) on its *)
(*              task list                                                  *)
(***************************************************************************)
EXTENDS Integers, Sequences, FiniteSets, Bags

(* ------------------------------ bounds -------------------------------- *)
\* concurrent callers of register
NumProcs == 2
\* distinct original URLs the callers submit
NumUrls == 2
\* symbols of the alphabet the sampled candidates are built from
NumSymbols == 2
\* largest code length the model lets the setting grow to
MaxLen == 6
\* register calls each caller makes
MaxCalls == 2
\* the count of a call's conflicts stops at this value
MaxConflicts == 4
\* register calls each caller makes while lookups run beside them
ResolveCalls == 1
\* todo_cli: add_task is called while next_task_id is at most this value
MaxTaskId == 4
\* todo_cli: distinct task titles
NumTitles == 2

(* ------------------------- program constants -------------------------- *)
DEFAULT_SHORT_CODE_LENGTH == 4
\* for _ in 0..3
ATTEMPTS_PER_ROUND == 3

Procs == 1..NumProcs
Urls == 1..NumUrls
Alphabet == 1..NumSymbols

(* ------------------------------ state --------------------------------- *)
VARIABLES
    short_urls,     \* rows of table short_urls: [short_code, original_url]
    settings,       \* value of the row key = 'short_code_length': <<>> when
                    \* the row is absent, else the TEXT value (decimal digits)
    pc,             \* pc[p]: position of caller p inside register
    original_url,   \* original_url[p]: argument of p's register call
    short_code_length, \* short_code_length[p]: the local read at line 47
    attempt,        \* attempt[p]: iterations of `for _ in 0..3` completed
    short_code,     \* short_code[p]: the candidate of the current iteration
    result,         \* result[p]: what the register call returned
    store_reply,    \* store_reply[p]: outcome of p's latest SQL statement
    issued,         \* bag of <<code, url>>: one copy per Ok(code) a caller
                    \* has received from register(url)
    calls,          \* calls[p]: register calls p has started
    conflicts,      \* conflicts[p]: unique violations p's call has met so
                    \* far, over all its rounds (counted up to MaxConflicts)
    lookup_out,     \* the lookup call in flight: [code, outcome, url]
    tasks,          \* todo_cli: TaskList.tasks as stored in the task file,
                    \* a sequence of [id, title, completed]
    next_task_id,   \* todo_cli: TaskList.next_task_id as stored in the file
    removed_ids     \* todo_cli: ids remove_task has taken out of the list

vars == <<short_urls, settings, pc, original_url, short_code_length, attempt,
          short_code, result, store_reply, issued, calls, conflicts,
          lookup_out, tasks, next_task_id, removed_ids>>

\* the state of todo_cli
todo == <<tasks, next_task_id, removed_ids>>

regLocals == <<pc, original_url, short_code_length, attempt, short_code,
               result, store_reply, calls, conflicts>>

(* ------------------------- pure functions ----------------------------- *)
\* length.to_string(): the decimal digits of a usize, most significant first
RECURSIVE to_string(_)
to_string(n) ==
    IF n < 10 THEN <<n>> ELSE to_string(n \div 10) \o <<n % 10>>

\* value_string.parse::<usize>(): the number, or -1 for a parse error
\* (the empty string is a parse error)
RECURSIVE ParseDigits(_, _)
ParseDigits(s, acc) ==
    IF s = <<>> THEN acc
    ELSE IF Head(s) \in 0..9 THEN ParseDigits(Tail(s), acc * 10 + Head(s))
    ELSE -1

ParseUsize(s) == IF s = <<>> THEN -1 ELSE ParseDigits(s, 0)

\* mutant of generate_short_code: the length argument is ignored and every
\* candidate has the default length
generate_short_code_Fixed(length) ==
    {[i \in 1..DEFAULT_SHORT_CODE_LENGTH |-> s] : s \in Alphabet}

\* generate_short_code(length): a string of `length` alphabet symbols.  The
\* random draw is sampled by the strings that repeat one symbol, so there
\* are NumSymbols candidates of every length.
generate_short_code(length) ==
    {[i \in 1..length |-> s] : s \in Alphabet}

\* every code the model can generate
Codes == UNION {generate_short_code(l) : l \in DEFAULT_SHORT_CODE_LENGTH..MaxLen}

\* mutant of StoredLength: no default for a missing row or a parse error,
\* the value falls back to 0 (unwrap_or_default)
StoredLength_ZeroWhenAbsent ==
    IF settings = <<>> THEN 0
    ELSE IF ParseUsize(settings) < 0 THEN 0
    ELSE ParseUsize(settings)

\* the value get_short_code_length returns when the SELECT succeeds
StoredLength ==
    IF settings = <<>> THEN DEFAULT_SHORT_CODE_LENGTH
    ELSE IF ParseUsize(settings) < 0 THEN DEFAULT_SHORT_CODE_LENGTH
    ELSE ParseUsize(settings)

\* mutant of UniqueViolation: column short_code without its UNIQUE constraint
NoUniqueConstraint(code) == FALSE

\* UNIQUE constraint of column short_code
UniqueViolation(code) == \E r \in short_urls : r.short_code = code

NoResult == [tag |-> "none", code |-> <<>>]
OkResult(code) == [tag |-> "Ok", code |-> code]
InternalError == [tag |-> "Internal", code |-> <<>>]

NoLookup == [code |-> <<>>, outcome |-> "none", url |-> 0]

(* ------------------------------ Init ---------------------------------- *)
\* after auto_migrate on a fresh database: both tables exist and are empty
Init ==
    /\ short_urls = {}
    /\ settings = <<>>
    /\ pc = [p \in Procs |-> "idle"]
    /\ original_url = [p \in Procs |-> 0]
    /\ short_code_length = [p \in Procs |-> 0]
    /\ attempt = [p \in Procs |-> 0]
    /\ short_code = [p \in Procs |-> <<>>]
    /\ result = [p \in Procs |-> NoResult]
    /\ store_reply = [p \in Procs |-> "none"]
    /\ issued = EmptyBag
    /\ calls = [p \in Procs |-> 0]
    /\ conflicts = [p \in Procs |-> 0]
    /\ lookup_out = NoLookup
    /\ tasks = <<>>
    /\ next_task_id = 1
    /\ removed_ids = {}

(* ----------------------------- register ------------------------------- *)
\* a caller enters register(original_url)
Register(p, u) ==
    /\ pc[p] = "idle"
    /\ calls[p] < MaxCalls
    /\ calls' = [calls EXCEPT ![p] = calls[p] + 1]
    /\ pc' = [pc EXCEPT ![p] = "read"]
    /\ original_url' = [original_url EXCEPT ![p] = u]
    /\ UNCHANGED <<short_urls, settings, short_code_length, attempt,
                   short_code, result, store_reply, issued, conflicts,
                   lookup_out, todo>>

\* line 47: get_short_code_length().await? with a store fault; `?` returns
\* Err(Internal) and the locals of the call are dropped
GetShortCodeLengthFault(p) ==
    /\ pc[p] = "read"
    /\ store_reply' = [store_reply EXCEPT ![p] = "ReadErr"]
    /\ result' = [result EXCEPT ![p] = InternalError]
    /\ pc' = [pc EXCEPT ![p] = "done"]
    /\ short_code_length' = [short_code_length EXCEPT ![p] = 0]
    /\ attempt' = [attempt EXCEPT ![p] = 0]
    /\ short_code' = [short_code EXCEPT ![p] = <<>>]
    /\ UNCHANGED <<short_urls, settings, original_url, issued, calls,
                   conflicts, lookup_out, todo>>

\* mutant of GetShortCodeLength: a read that finds no row persists the
\* default length (the setting is initialised on first use)
GetShortCodeLength_PersistsDefault(p) ==
    /\ pc[p] = "read"
    /\ StoredLength <= MaxLen
    /\ settings' = IF settings = <<>>
                      THEN to_string(DEFAULT_SHORT_CODE_LENGTH)
                      ELSE settings
    /\ store_reply' = [store_reply EXCEPT ![p] = "ReadOk"]
    /\ short_code_length' = [short_code_length EXCEPT ![p] = StoredLength]
    /\ attempt' = [attempt EXCEPT ![p] = 0]
    /\ \E c \in generate_short_code(StoredLength) :
          short_code' = [short_code EXCEPT ![p] = c]
    /\ pc' = [pc EXCEPT ![p] = "insert"]
    /\ UNCHANGED <<short_urls, original_url, result, issued, calls,
                   conflicts, lookup_out, todo>>

\* mutant of GetShortCodeLength: the length is memoized per call; a round
\* after the first one uses the call's previous length + 1 without a SELECT
GetShortCodeLength_Memoized(p) ==
    /\ pc[p] = "read"
    /\ StoredLength <= MaxLen
    /\ short_code_length[p] + 1 <= MaxLen
    /\ store_reply' = [store_reply EXCEPT ![p] = "ReadOk"]
    /\ LET length == IF short_code_length[p] = 0 THEN StoredLength
                     ELSE short_code_length[p] + 1
       IN  /\ short_code_length' = [short_code_length EXCEPT ![p] = length]
           /\ \E c \in generate_short_code(length) :
                 short_code' = [short_code EXCEPT ![p] = c]
    /\ attempt' = [attempt EXCEPT ![p] = 0]
    /\ pc' = [pc EXCEPT ![p] = "insert"]
    /\ UNCHANGED <<short_urls, settings, original_url, result, issued,
                   calls, conflicts, lookup_out, todo>>

\* line 47 succeeding, then line 50 of the first iteration of the for loop
GetShortCodeLength(p) ==
    /\ pc[p] = "read"
    /\ StoredLength <= MaxLen
    /\ store_reply' = [store_reply EXCEPT ![p] = "ReadOk"]
    /\ short_code_length' = [short_code_length EXCEPT ![p] = StoredLength]
    /\ attempt' = [attempt EXCEPT ![p] = 0]
    /\ \E c \in generate_short_code(StoredLength) :
          short_code' = [short_code EXCEPT ![p] = c]
    /\ pc' = [pc EXCEPT ![p] = "insert"]
    /\ UNCHANGED <<short_urls, settings, original_url, result, issued,
                   calls, conflicts,
                   lookup_out, todo>>

\* mutant of InsertOk: the INSERT is not checked against the rows present
\* (no UNIQUE constraint is consulted at the insert)
InsertOk_Unchecked(p) ==
    /\ pc[p] = "insert"
    /\ short_urls' = short_urls \cup
          {[short_code |-> short_code[p], original_url |-> original_url[p]]}
    /\ store_reply' = [store_reply EXCEPT ![p] = "Reserved"]
    /\ result' = [result EXCEPT ![p] = OkResult(short_code[p])]
    /\ pc' = [pc EXCEPT ![p] = "done"]
    /\ short_code_length' = [short_code_length EXCEPT ![p] = 0]
    /\ attempt' = [attempt EXCEPT ![p] = 0]
    /\ short_code' = [short_code EXCEPT ![p] = <<>>]
    /\ UNCHANGED <<settings, original_url, issued, calls, conflicts,
                   lookup_out, todo>>

\* lines 51-61: the INSERT commits; register is about to return
\* Ok(short_code) and the locals of the call are dropped
InsertOk(p) ==
    /\ pc[p] = "insert"
    /\ ~UniqueViolation(short_code[p])
    /\ short_urls' = short_urls \cup
          {[short_code |-> short_code[p], original_url |-> original_url[p]]}
    /\ store_reply' = [store_reply EXCEPT ![p] = "Reserved"]
    /\ result' = [result EXCEPT ![p] = OkResult(short_code[p])]
    /\ pc' = [pc EXCEPT ![p] = "done"]
    /\ short_code_length' = [short_code_length EXCEPT ![p] = 0]
    /\ attempt' = [attempt EXCEPT ![p] = 0]
    /\ short_code' = [short_code EXCEPT ![p] = <<>>]
    /\ UNCHANGED <<settings, original_url, issued, calls, conflicts,
                   lookup_out, todo>>

\* mutant of InsertConflict: the INSERT carries ON CONFLICT (short_code) DO
\* UPDATE SET original_url, so a taken code is bound to the new URL
InsertConflict_Upserts(p) ==
    /\ pc[p] = "insert"
    /\ UniqueViolation(short_code[p])
    /\ short_urls' = {r \in short_urls : r.short_code # short_code[p]} \cup
          {[short_code |-> short_code[p], original_url |-> original_url[p]]}
    /\ store_reply' = [store_reply EXCEPT ![p] = "Reserved"]
    /\ result' = [result EXCEPT ![p] = OkResult(short_code[p])]
    /\ pc' = [pc EXCEPT ![p] = "done"]
    /\ short_code_length' = [short_code_length EXCEPT ![p] = 0]
    /\ attempt' = [attempt EXCEPT ![p] = 0]
    /\ short_code' = [short_code EXCEPT ![p] = <<>>]
    /\ UNCHANGED <<settings, original_url, issued, calls, conflicts,
                   lookup_out, todo>>

\* mutant of InsertConflict: the unique violation is not told apart from
\* other errors and is returned as Err(Internal)
InsertConflict_Surfaces(p) ==
    /\ pc[p] = "insert"
    /\ UniqueViolation(short_code[p])
    /\ store_reply' = [store_reply EXCEPT ![p] = "Conflict"]
    /\ conflicts' = [conflicts EXCEPT ![p] =
          IF conflicts[p] < MaxConflicts THEN conflicts[p] + 1 ELSE conflicts[p]]
    /\ result' = [result EXCEPT ![p] = InternalError]
    /\ pc' = [pc EXCEPT ![p] = "done"]
    /\ short_code_length' = [short_code_length EXCEPT ![p] = 0]
    /\ attempt' = [attempt EXCEPT ![p] = 0]
    /\ short_code' = [short_code EXCEPT ![p] = <<>>]
    /\ UNCHANGED <<short_urls, settings, original_url, issued, calls,
                   lookup_out, todo>>

\* mutant of InsertConflict: the call gives up with an error after the third
\* conflict of a round instead of growing the length and going on
InsertConflict_Ceiling(p) ==
    /\ pc[p] = "insert"
    /\ UniqueViolation(short_code[p])
    /\ store_reply' = [store_reply EXCEPT ![p] = "Conflict"]
    /\ conflicts' = [conflicts EXCEPT ![p] =
          IF conflicts[p] < MaxConflicts THEN conflicts[p] + 1 ELSE conflicts[p]]
    /\ IF attempt[p] + 1 < ATTEMPTS_PER_ROUND
          THEN /\ \E c \in generate_short_code(short_code_length[p]) :
                     short_code' = [short_code EXCEPT ![p] = c]
               /\ attempt' = [attempt EXCEPT ![p] = attempt[p] + 1]
               /\ pc' = [pc EXCEPT ![p] = "insert"]
               /\ UNCHANGED <<result, short_code_length>>
          ELSE /\ short_code' = [short_code EXCEPT ![p] = <<>>]
               /\ attempt' = [attempt EXCEPT ![p] = 0]
               /\ short_code_length' = [short_code_length EXCEPT ![p] = 0]
               /\ result' = [result EXCEPT ![p] = InternalError]
               /\ pc' = [pc EXCEPT ![p] = "done"]
    /\ UNCHANGED <<short_urls, settings, original_url, issued, calls,
                   lookup_out, todo>>

\* lines 62-66: the INSERT hits the UNIQUE constraint; `continue` starts the
\* next iteration (line 50) or, after the third one, leaves the for loop
InsertConflict(p) ==
    /\ pc[p] = "insert"
    /\ UniqueViolation(short_code[p])
    /\ store_reply' = [store_reply EXCEPT ![p] = "Conflict"]
    /\ conflicts' = [conflicts EXCEPT ![p] =
          IF conflicts[p] < MaxConflicts THEN conflicts[p] + 1 ELSE conflicts[p]]
    /\ attempt' = [attempt EXCEPT ![p] = attempt[p] + 1]
    /\ IF attempt[p] + 1 < ATTEMPTS_PER_ROUND
          THEN /\ \E c \in generate_short_code(short_code_length[p]) :
                     short_code' = [short_code EXCEPT ![p] = c]
               /\ pc' = [pc EXCEPT ![p] = "insert"]
          ELSE /\ short_code' = [short_code EXCEPT ![p] = <<>>]
               /\ pc' = [pc EXCEPT ![p] = "save"]
    /\ UNCHANGED <<short_urls, settings, original_url, short_code_length,
                   result, issued, calls, lookup_out, todo>>

\* mutant of InsertFault: the row is committed although the statement
\* reports an error to the call
InsertFault_Commits(p) ==
    /\ pc[p] = "insert"
    /\ short_urls' = short_urls \cup
          {[short_code |-> short_code[p], original_url |-> original_url[p]]}
    /\ store_reply' = [store_reply EXCEPT ![p] = "InsertErr"]
    /\ result' = [result EXCEPT ![p] = InternalError]
    /\ pc' = [pc EXCEPT ![p] = "done"]
    /\ short_code_length' = [short_code_length EXCEPT ![p] = 0]
    /\ attempt' = [attempt EXCEPT ![p] = 0]
    /\ short_code' = [short_code EXCEPT ![p] = <<>>]
    /\ UNCHANGED <<settings, original_url, issued, calls, conflicts,
                   lookup_out, todo>>

\* mutant of InsertFault: any error of the INSERT is treated like a unique
\* violation and the loop goes on
InsertFault_Retried(p) ==
    /\ pc[p] = "insert"
    /\ store_reply' = [store_reply EXCEPT ![p] = "InsertErr"]
    /\ attempt' = [attempt EXCEPT ![p] = attempt[p] + 1]
    /\ IF attempt[p] + 1 < ATTEMPTS_PER_ROUND
          THEN /\ \E c \in generate_short_code(short_code_length[p]) :
                     short_code' = [short_code EXCEPT ![p] = c]
               /\ pc' = [pc EXCEPT ![p] = "insert"]
          ELSE /\ short_code' = [short_code EXCEPT ![p] = <<>>]
               /\ pc' = [pc EXCEPT ![p] = "save"]
    /\ UNCHANGED <<short_urls, settings, original_url, short_code_length,
                   result, issued, calls, conflicts, lookup_out, todo>>

\* line 68: the INSERT fails with any other error
InsertFault(p) ==
    /\ pc[p] = "insert"
    /\ store_reply' = [store_reply EXCEPT ![p] = "InsertErr"]
    /\ result' = [result EXCEPT ![p] = InternalError]
    /\ pc' = [pc EXCEPT ![p] = "done"]
    /\ short_code_length' = [short_code_length EXCEPT ![p] = 0]
    /\ attempt' = [attempt EXCEPT ![p] = 0]
    /\ short_code' = [short_code EXCEPT ![p] = <<>>]
    /\ UNCHANGED <<short_urls, settings, original_url, issued, calls,
                   conflicts, lookup_out, todo>>

\* mutant of SaveShortCodeLength: the statement increments the stored value
\* (UPDATE ... SET value = value + 1) instead of writing the read + 1
SaveShortCodeLength_Increments(p) ==
    /\ pc[p] = "save"
    /\ StoredLength + 1 <= MaxLen
    /\ settings' = to_string(StoredLength + 1)
    /\ store_reply' = [store_reply EXCEPT ![p] = "WriteOk"]
    /\ pc' = [pc EXCEPT ![p] = "read"]
    /\ UNCHANGED <<short_urls, original_url, short_code_length, attempt,
                   short_code, result, issued, calls, conflicts, lookup_out,
                   todo>>

\* mutant of SaveShortCodeLength: the length is persisted without the + 1
SaveShortCodeLength_NoIncrement(p) ==
    /\ pc[p] = "save"
    /\ short_code_length[p] + 1 <= MaxLen
    /\ settings' = to_string(short_code_length[p])
    /\ store_reply' = [store_reply EXCEPT ![p] = "WriteOk"]
    /\ pc' = [pc EXCEPT ![p] = "read"]
    /\ UNCHANGED <<short_urls, original_url, short_code_length, attempt,
                   short_code, result, issued, calls, conflicts, lookup_out,
                   todo>>

\* line 73 / lines 96-104: the upsert succeeds; Ok(()) and back to `loop`
SaveShortCodeLength(p) ==
    /\ pc[p] = "save"
    /\ short_code_length[p] + 1 <= MaxLen
    /\ settings' = to_string(short_code_length[p] + 1)
    /\ store_reply' = [store_reply EXCEPT ![p] = "WriteOk"]
    /\ pc' = [pc EXCEPT ![p] = "read"]
    /\ UNCHANGED <<short_urls, original_url, short_code_length, attempt,
                   short_code, result, issued, calls, conflicts,
                   lookup_out, todo>>

\* mutant of SaveShortCodeLengthFault: the error of the upsert is returned
\* and the `?` of line 73 ends register with it
SaveShortCodeLengthFault_Propagates(p) ==
    /\ pc[p] = "save"
    /\ store_reply' = [store_reply EXCEPT ![p] = "WriteErr"]
    /\ result' = [result EXCEPT ![p] = InternalError]
    /\ pc' = [pc EXCEPT ![p] = "done"]
    /\ short_code_length' = [short_code_length EXCEPT ![p] = 0]
    /\ attempt' = [attempt EXCEPT ![p] = 0]
    /\ UNCHANGED <<short_urls, settings, original_url, short_code, issued,
                   calls, conflicts, lookup_out, todo>>

\* lines 97-103: the upsert fails; the error is dropped by `let _ =`,
\* Ok(()) is returned all the same and register goes back to `loop`
SaveShortCodeLengthFault(p) ==
    /\ pc[p] = "save"
    /\ store_reply' = [store_reply EXCEPT ![p] = "WriteErr"]
    /\ pc' = [pc EXCEPT ![p] = "read"]
    /\ UNCHANGED <<short_urls, settings, original_url, short_code_length,
                   attempt, short_code, result, issued, calls, conflicts,
                   lookup_out, todo>>

\* the call completes: the caller receives the Result; it may call again
Return(p) ==
    /\ pc[p] = "done"
    /\ issued' = IF result[p].tag = "Ok"
                    THEN issued (+) SetToBag({<<result[p].code, original_url[p]>>})
                    ELSE issued
    /\ pc' = [pc EXCEPT ![p] = "idle"]
    /\ conflicts' = [conflicts EXCEPT ![p] = 0]
    /\ original_url' = [original_url EXCEPT ![p] = 0]
    /\ result' = [result EXCEPT ![p] = NoResult]
    /\ store_reply' = [store_reply EXCEPT ![p] = "none"]
    /\ UNCHANGED <<short_urls, settings, short_code_length, attempt,
                   short_code, calls, lookup_out, todo>>

(* ------------------------------ lookup -------------------------------- *)
\* mutant of Lookup: the SELECT has no WHERE clause and returns a first row
Lookup_FirstRow(c) ==
    /\ lookup_out = NoLookup
    /\ tasks = <<>>
    /\ next_task_id = 1
    /\ removed_ids = {}
    /\ lookup_out' =
          IF short_urls # {}
             THEN [code |-> c, outcome |-> "Found",
                   url |-> (CHOOSE r \in short_urls : TRUE).original_url]
             ELSE [code |-> c, outcome |-> "NotFound", url |-> 0]
    /\ UNCHANGED <<short_urls, settings, issued, regLocals, todo>>

\* mutant of Lookup: the WHERE clause matches the stored code against the
\* beginning of the code asked for
Lookup_PrefixMatch(c) ==
    /\ lookup_out = NoLookup
    /\ tasks = <<>>
    /\ next_task_id = 1
    /\ removed_ids = {}
    /\ lookup_out' =
          IF \E r \in short_urls : r.short_code = SubSeq(c, 1, Len(r.short_code))
             THEN [code |-> c, outcome |-> "Found",
                   url |-> (CHOOSE r \in short_urls :
                               r.short_code = SubSeq(c, 1, Len(r.short_code))).original_url]
             ELSE [code |-> c, outcome |-> "NotFound", url |-> 0]
    /\ UNCHANGED <<short_urls, settings, issued, regLocals, todo>>

\* mutant of Lookup: a code is good for one resolution, its row is deleted
\* when it is found
Lookup_Consuming(c) ==
    /\ lookup_out = NoLookup
    /\ tasks = <<>>
    /\ next_task_id = 1
    /\ removed_ids = {}
    /\ lookup_out' =
          IF \E r \in short_urls : r.short_code = c
             THEN [code |-> c, outcome |-> "Found",
                   url |-> (CHOOSE r \in short_urls : r.short_code = c).original_url]
             ELSE [code |-> c, outcome |-> "NotFound", url |-> 0]
    /\ short_urls' = {r \in short_urls : r.short_code # c}
    /\ UNCHANGED <<settings, issued, regLocals, todo>>

\* lines 106-117: one SELECT; Some(row) => Ok(original_url), None => NotFound
Lookup(c) ==
    /\ lookup_out = NoLookup
    /\ tasks = <<>>
    /\ next_task_id = 1
    /\ removed_ids = {}
    /\ lookup_out' =
          IF \E r \in short_urls : r.short_code = c
             THEN [code |-> c, outcome |-> "Found",
                   url |-> (CHOOSE r \in short_urls : r.short_code = c).original_url]
             ELSE [code |-> c, outcome |-> "NotFound", url |-> 0]
    /\ UNCHANGED <<short_urls, settings, issued, regLocals, todo>>

\* line 111: the SELECT fails
LookupFault(c) ==
    /\ lookup_out = NoLookup
    /\ tasks = <<>>
    /\ next_task_id = 1
    /\ removed_ids = {}
    /\ lookup_out' = [code |-> c, outcome |-> "Internal", url |-> 0]
    /\ UNCHANGED <<short_urls, settings, issued, regLocals, todo>>

\* the caller of lookup receives the Result
LookupReturn ==
    /\ lookup_out # NoLookup
    /\ lookup_out' = NoLookup
    /\ UNCHANGED <<short_urls, settings, issued, regLocals, todo>>

(* ------------------------------- Next --------------------------------- *)
\* the steps of a register call after its entry
RegisterStep ==
    \/ \E p \in Procs : GetShortCodeLengthFault(p)
    \/ \E p \in Procs : GetShortCodeLength(p)
    \/ \E p \in Procs : InsertOk(p)
    \/ \E p \in Procs : InsertConflict(p)
    \/ \E p \in Procs : InsertFault(p)
    \/ \E p \in Procs : SaveShortCodeLength(p)
    \/ \E p \in Procs : SaveShortCodeLengthFault(p)
    \/ \E p \in Procs : Return(p)

\* concurrent register calls
Next ==
    \/ \E p \in Procs, u \in Urls : Register(p, u)
    \/ RegisterStep

\* the allocator alone: concurrent register calls
Spec == Init /\ [][Next]_vars

\* register calls (ResolveCalls of them per caller) and lookup calls
ResolveNext ==
    \/ \E p \in Procs, u \in Urls : calls[p] < ResolveCalls /\ Register(p, u)
    \/ RegisterStep
    \/ \E c \in Codes : Lookup(c)
    \/ \E c \in Codes : LookupFault(c)
    \/ LookupReturn

\* the allocator together with concurrent lookup calls
ResolveSpec == Init /\ [][ResolveNext]_vars

(* --------------------- the saturated environment --------------------- *)
\* a registry in which every candidate of the default length is taken (by
\* earlier, completed register calls) and no length has been persisted
SatInit ==
    /\ \E f \in [generate_short_code(DEFAULT_SHORT_CODE_LENGTH) -> Urls] :
          /\ short_urls = {[short_code |-> c, original_url |-> f[c]] :
                             c \in generate_short_code(DEFAULT_SHORT_CODE_LENGTH)}
          /\ issued = SetToBag({<<c, f[c]>> :
                             c \in generate_short_code(DEFAULT_SHORT_CODE_LENGTH)})
    /\ settings = <<>>
    /\ pc = [p \in Procs |-> "idle"]
    /\ original_url = [p \in Procs |-> 0]
    /\ short_code_length = [p \in Procs |-> 0]
    /\ attempt = [p \in Procs |-> 0]
    /\ short_code = [p \in Procs |-> <<>>]
    /\ result = [p \in Procs |-> NoResult]
    /\ store_reply = [p \in Procs |-> "none"]
    /\ calls = [p \in Procs |-> 0]
    /\ conflicts = [p \in Procs |-> 0]
    /\ lookup_out = NoLookup
    /\ tasks = <<>>
    /\ next_task_id = 1
    /\ removed_ids = {}

\* the steps of caller p when the only store fault is that of the length
\* upsert, which fails every time
SatStep(p) ==
    \/ \E u \in Urls : Register(p, u)
    \/ GetShortCodeLength(p)
    \/ InsertConflict(p)
    \/ SaveShortCodeLengthFault(p)

SatNext == \E p \in Procs : SatStep(p)

\* every register call that has been entered keeps being polled (the async
\* runtime resumes a task whose SQL statement has completed)
SatSpec == SatInit /\ [][SatNext]_vars /\ \A p \in Procs : WF_vars(SatStep(p))

(* ------------------- one call at a time, no faults -------------------- *)
\* the codes of length 4 .. s the model can generate
CodesUpTo(s) ==
    UNION {generate_short_code(l) : l \in DEFAULT_SHORT_CODE_LENGTH..s}

\* a registry left behind by earlier, completed register calls, in which no
\* stored code is longer than the length setting s: the setting is absent
\* when s is the default, a length the setting has grown past has at least
\* one code taken (three conflicts were met there), and s leaves room for
\* one more growth step below MaxLen
SoloInit ==
    /\ \E s \in DEFAULT_SHORT_CODE_LENGTH..(MaxLen - 1) :
          /\ settings = IF s = DEFAULT_SHORT_CODE_LENGTH THEN <<>>
                        ELSE to_string(s)
          /\ \E taken \in SUBSET CodesUpTo(s) :
                /\ \A l \in DEFAULT_SHORT_CODE_LENGTH..(s - 1) :
                      taken \cap generate_short_code(l) # {}
                /\ \E f \in [taken -> Urls] :
                      /\ short_urls = {[short_code |-> c, original_url |-> f[c]] :
                                          c \in taken}
                      /\ issued = SetToBag({<<c, f[c]>> : c \in taken})
    /\ pc = [p \in Procs |-> "idle"]
    /\ original_url = [p \in Procs |-> 0]
    /\ short_code_length = [p \in Procs |-> 0]
    /\ attempt = [p \in Procs |-> 0]
    /\ short_code = [p \in Procs |-> <<>>]
    /\ result = [p \in Procs |-> NoResult]
    /\ store_reply = [p \in Procs |-> "none"]
    /\ calls = [p \in Procs |-> 0]
    /\ conflicts = [p \in Procs |-> 0]
    /\ lookup_out = NoLookup
    /\ tasks = <<>>
    /\ next_task_id = 1
    /\ removed_ids = {}

\* a register call is entered only while no other call is in progress and
\* the setting leaves room for a growth step; no statement fails
SoloNext ==
    \/ \E p \in Procs, u \in Urls :
          /\ \A q \in Procs : pc[q] = "idle"
          /\ StoredLength < MaxLen
          /\ Register(p, u)
    \/ \E p \in Procs : GetShortCodeLength(p)
    \/ \E p \in Procs : InsertOk(p)
    \/ \E p \in Procs : InsertConflict(p)
    \/ \E p \in Procs : SaveShortCodeLength(p)
    \/ \E p \in Procs : Return(p)

\* register calls one after the other on a store without faults; a call
\* that has been entered keeps being polled
SoloSpec == SoloInit /\ [][SoloNext]_vars /\ WF_vars(SoloNext)

(* ------------------------------ todo_cli ------------------------------ *)
\* src/todo_cli/src/main.rs: every command loads the TaskList from the task
\* file (TaskList::new() when there is none), applies one operation and
\* saves it; tasks and next_task_id are the list as stored in the file.
\* The list command only reads.

\* the state of the URL shortener, which todo_cli does not touch
urlVars == <<short_urls, settings, issued, regLocals, lookup_out>>

Titles == 1..NumTitles
TaskIds == 1..MaxTaskId

\* Task::new(id, title)
NewTask(id, title) == [id |-> id, title |-> title, completed |-> FALSE]

\* self.tasks.iter().position(|task| task.id == id): the first index whose
\* task has the id, 0 for None
Position(id) ==
    IF \E i \in DOMAIN tasks : tasks[i].id = id
       THEN CHOOSE i \in DOMAIN tasks :
               /\ tasks[i].id = id
               /\ \A j \in DOMAIN tasks : tasks[j].id = id => i <= j
       ELSE 0

\* mutant of AddTask: the new id is the size of the list + 1
AddTask_IdFromLen(title) ==
    /\ next_task_id <= MaxTaskId
    /\ tasks' = Append(tasks, NewTask(Len(tasks) + 1, title))
    /\ next_task_id' = next_task_id + 1
    /\ UNCHANGED <<removed_ids, urlVars>>

\* command Add: add_task pushes Task::new(next_task_id, title) and
\* increments next_task_id; MaxTaskId keeps the u32 far from u32::MAX, where
\* the increment would overflow
AddTask(title) ==
    /\ next_task_id <= MaxTaskId
    /\ tasks' = Append(tasks, NewTask(next_task_id, title))
    /\ next_task_id' = next_task_id + 1
    /\ UNCHANGED <<removed_ids, urlVars>>

\* command Remove: remove_task removes the first task with the id, if any
RemoveTask(id) ==
    /\ IF Position(id) # 0
          THEN /\ tasks' = SubSeq(tasks, 1, Position(id) - 1) \o
                           SubSeq(tasks, Position(id) + 1, Len(tasks))
               /\ removed_ids' = removed_ids \cup {id}
          ELSE UNCHANGED <<tasks, removed_ids>>
    /\ UNCHANGED <<next_task_id, urlVars>>

\* command Complete: get_task finds the first task with the id and
\* mark_completed sets its flag; nothing happens for an unknown id
CompleteTask(id) ==
    /\ IF Position(id) # 0
          THEN tasks' = [tasks EXCEPT ![Position(id)].completed = TRUE]
          ELSE UNCHANGED tasks
    /\ UNCHANGED <<next_task_id, removed_ids, urlVars>>

TodoNext ==
    \/ \E title \in Titles : AddTask(title)
    \/ \E id \in TaskIds : RemoveTask(id)
    \/ \E id \in TaskIds : CompleteTask(id)

\* todo_cli commands run one after the other, starting without a task file
TodoSpec == Init /\ [][TodoNext]_vars

(* ============================= claims ================================ *)
\* codes a caller has received from a completed register call
IssuedCodes == {e[1] : e \in BagToSet(issued)}

\* codes a register call has inserted and is about to return
PendingCodes == {result[p].code : p \in {q \in Procs : result[q].tag = "Ok"}}

\* how many register calls have produced Ok(c): completed ones and those
\* about to return
RECURSIVE IssuedCopies(_, _)
IssuedCopies(c, us) ==
    IF us = {} THEN 0
    ELSE LET u == CHOOSE x \in us : TRUE
         IN  CopiesIn(<<c, u>>, issued) + IssuedCopies(c, us \ {u})

ReturnsOf(c) ==
    IssuedCopies(c, Urls) + Cardinality({p \in Procs : result[p] = OkResult(c)})

\* caller p executes its INSERT in this step
InsertStep(p) ==
    /\ pc[p] = "insert"
    /\ <<pc'[p], attempt'[p]>> # <<pc[p], attempt[p]>>

\* a lookup call executes its SELECT in this step
LookupStep == lookup_out = NoLookup /\ lookup_out' # NoLookup

\* C1 (Uniqueness): in every interleaving of register calls, no code is
\* returned by two distinct successful calls (equal URLs included), and an
\* INSERT that succeeds never carries a code that was already a row of
\* short_urls when it was attempted.
C1_Uniqueness ==
    /\ [](\A c \in Codes : ReturnsOf(c) <= 1)
    /\ [][\A p \in Procs :
            (InsertStep(p) /\ result'[p].tag = "Ok")
               => ~(\E r \in short_urls : r.short_code = result'[p].code)]_vars

\* C1 witness: the same URL has been registered twice and two different
\* codes were returned for it
C1_Witness ==
    \E e1, e2 \in BagToSet(issued) : e1[2] = e2[2] /\ e1[1] # e2[1]

\* C2 (Round-trip): once register(u) has returned c, every lookup(c) whose
\* SELECT does not fail returns u, whatever register and lookup calls are
\* interleaved.
C2_RoundTrip ==
    [][\A c \in Codes, u \in Urls :
          (/\ BagIn(<<c, u>>, issued)
           /\ LookupStep
           /\ lookup_out'.code = c
           /\ lookup_out'.outcome # "Internal")
             => (lookup_out'.outcome = "Found" /\ lookup_out'.url = u)]_vars

\* C2 witness: a lookup has found the URL of an issued code while a register
\* call of another caller is between its read and its INSERT
C2_Witness ==
    /\ lookup_out.outcome = "Found"
    /\ BagIn(<<lookup_out.code, lookup_out.url>>, issued)
    /\ \E p \in Procs : pc[p] = "insert"

\* C3 as stated (Unknown lookup): a lookup of a code that no completed
\* register call has returned reports NotFound unless its SELECT fails.
C3_UnknownLookup_Original ==
    [][\A c \in Codes :
          (/\ c \notin IssuedCodes
           /\ LookupStep
           /\ lookup_out'.code = c
           /\ lookup_out'.outcome # "Internal")
             => lookup_out'.outcome = "NotFound"]_vars

\* C3 amended: a lookup of a code that no register call has reserved (none
\* has returned it and none has inserted it and is about to return it)
\* reports NotFound unless its SELECT fails, also while register calls are
\* in progress.
C3_UnknownLookup ==
    [][\A c \in Codes :
          (/\ c \notin IssuedCodes \cup PendingCodes
           /\ LookupStep
           /\ lookup_out'.code = c
           /\ lookup_out'.outcome # "Internal")
             => lookup_out'.outcome = "NotFound"]_vars

\* C3 witness: NotFound for an unreserved code while the table is not empty
\* and a register call is in progress
C3_Witness ==
    /\ lookup_out.outcome = "NotFound"
    /\ lookup_out.code \notin IssuedCodes \cup PendingCodes
    /\ short_urls # {}
    /\ \E p \in Procs : pc[p] = "insert"

\* C4 (never decreased): no step lowers the persisted length (the default
\* while no row is stored).
C4_NeverDecreased == [][StoredLength' >= StoredLength]_vars

\* C5 as stated (Length growth): when the third candidate of a round at
\* length L has conflicted, the step that follows leaves the persisted
\* length at L+1, and the next candidate of that call has length L+1.
C5_LengthGrowth_Original ==
    [][\A p \in Procs :
          /\ (pc[p] = "save" /\ pc'[p] # "save")
                => StoredLength' = short_code_length[p] + 1
          /\ (pc[p] = "read" /\ attempt[p] = ATTEMPTS_PER_ROUND
                /\ pc'[p] = "insert")
                => Len(short_code'[p]) = short_code_length[p] + 1]_vars

\* C5 amended: after the third conflict of a round at length L the call
\* writes L+1; unless that write fails the persisted length is L+1 right
\* after it; and the next candidate of the call has the length its next
\* read returns, which is L+1 when the setting still holds L+1 at that read.
C5_LengthGrowth ==
    [][\A p \in Procs :
          /\ (InsertStep(p) /\ attempt'[p] = ATTEMPTS_PER_ROUND)
                => pc'[p] = "save"
          /\ (pc[p] = "save" /\ pc'[p] # "save"
                /\ store_reply'[p] = "WriteOk")
                => /\ settings' = to_string(short_code_length[p] + 1)
                   /\ StoredLength' = short_code_length[p] + 1
          /\ (pc[p] = "read" /\ attempt[p] = ATTEMPTS_PER_ROUND
                /\ pc'[p] = "insert")
                => /\ Len(short_code'[p]) = StoredLength
                   /\ (StoredLength = short_code_length[p] + 1
                         => Len(short_code'[p]) = short_code_length[p] + 1)]_vars

\* C5 witness: a caller running alone met three conflicts at the default
\* length, persisted the next length and now holds a candidate of it
C5_Witness ==
    \E p \in Procs :
       /\ \A q \in Procs \ {p} : calls[q] = 0
       /\ pc[p] = "insert"
       /\ conflicts[p] = ATTEMPTS_PER_ROUND
       /\ settings = to_string(DEFAULT_SHORT_CODE_LENGTH + 1)
       /\ Len(short_code[p]) = DEFAULT_SHORT_CODE_LENGTH + 1

\* C6 (Collision transparency): an INSERT that is accepted makes register
\* return exactly the inserted candidate, however many conflicts came
\* before; a conflict returns nothing and goes on; and register returns an
\* error only after a store fault of its read or of its INSERT.
C6_CollisionTransparency ==
    /\ [](\A p \in Procs :
            result[p] = InternalError
               => store_reply[p] \in {"ReadErr", "InsertErr"})
    /\ [][\A p \in Procs :
            InsertStep(p) =>
               /\ store_reply'[p] = "Reserved"
                     => /\ result'[p] = OkResult(short_code[p])
                        /\ pc'[p] = "done"
                        /\ [short_code |-> short_code[p],
                            original_url |-> original_url[p]] \in short_urls'
               /\ store_reply'[p] = "Conflict"
                     => /\ result'[p] = NoResult
                        /\ pc'[p] \in {"insert", "save"}]_vars

\* C6 witness: a call was accepted after four conflicts, that is in its
\* second round
C6_Witness ==
    \E p \in Procs :
       /\ pc[p] = "done"
       /\ store_reply[p] = "Reserved"
       /\ result[p].tag = "Ok"
       /\ conflicts[p] = ATTEMPTS_PER_ROUND + 1

\* C7 (Store fault aborts allocation): a failing read or a failing INSERT
\* (not a unique violation) makes register return InternalError in that
\* very step, with both tables untouched; a call that has returned executes
\* no further statement.
C7_StoreFaultAborts ==
    [][\A p \in Procs :
          /\ (/\ store_reply[p] \notin {"ReadErr", "InsertErr"}
              /\ store_reply'[p] \in {"ReadErr", "InsertErr"})
                => /\ result'[p] = InternalError
                   /\ pc'[p] = "done"
                   /\ short_code'[p] = <<>>
                   /\ UNCHANGED <<short_urls, settings>>
          /\ (pc[p] = "done" /\ pc'[p] # "done")
                => /\ pc'[p] = "idle"
                   /\ UNCHANGED <<short_urls, settings>>]_vars

\* C7 witness: one call has returned after a failing read, another after a
\* failing INSERT that followed a conflict
C7_Witness ==
    \E p, q \in Procs :
       /\ store_reply[p] = "ReadErr" /\ result[p] = InternalError
       /\ store_reply[q] = "InsertErr" /\ result[q] = InternalError
       /\ conflicts[q] > 0

\* C8 (failed length write is swallowed): when the upsert of the length
\* fails, the setting keeps its value, register returns nothing and goes
\* to its next round, which starts with a read.
C8_WriteFailureSwallowed ==
    [][\A p \in Procs :
          (pc[p] = "save" /\ pc'[p] # "save" /\ store_reply'[p] = "WriteErr")
             => /\ settings' = settings
                /\ result'[p] = NoResult
                /\ pc'[p] = "read"]_vars

\* C8 witness: after a failed length write the call read again and holds
\* the first candidate of its next round
C8_Witness ==
    \E p \in Procs :
       /\ \A q \in Procs \ {p} : calls[q] = 0
       /\ pc[p] = "insert"
       /\ attempt[p] = 0
       /\ conflicts[p] = ATTEMPTS_PER_ROUND
       /\ settings = <<>>

\* C9 (no attempt ceiling): when every length write fails and every
\* candidate conflicts, a register call never returns, neither a code nor
\* an error, and goes from read to write and back to read for ever.
C9_NoAttemptCeiling ==
    /\ [](\A p \in Procs : pc[p] # "done" /\ result[p] = NoResult)
    /\ \A p \in Procs : (pc[p] = "read") ~> (pc[p] = "save")
    /\ \A p \in Procs : (pc[p] = "save") ~> (pc[p] = "read")

\* C9 witness: a call is past its fourth conflict and back at the read
\* after a failed length write
C9_Witness ==
    \E p \in Procs :
       /\ pc[p] = "read"
       /\ store_reply[p] = "WriteErr"
       /\ conflicts[p] = MaxConflicts

\* C10 (lookup is a pure read): the SELECT of a lookup, whatever its
\* outcome, changes neither table, nor the state of any register call.
C10_LookupPureRead ==
    [][LookupStep => UNCHANGED <<short_urls, settings, issued, regLocals>>]_vars

\* C10 witness: a lookup has failed while rows and a persisted length exist
\* and a register call is in progress
C10_Witness ==
    /\ lookup_out.outcome = "Internal"
    /\ short_urls # {}
    /\ settings # <<>>
    /\ \E p \in Procs : pc[p] \in {"read", "insert", "save"}

\* C11 (records are immutable): a code has one row; no step of any register
\* call (inserting, conflicting or failing), no length write and no lookup
\* removes a row or changes its URL; so the binding a caller was issued
\* stays in the table, a lookup of a bound code finds the URL of its row,
\* and rows of shorter codes stay beside those of longer ones.
C11_RecordsImmutable ==
    /\ [](\A r1, r2 \in short_urls : r1.short_code = r2.short_code => r1 = r2)
    /\ [](\A e \in BagToSet(issued) :
             [short_code |-> e[1], original_url |-> e[2]] \in short_urls)
    /\ [][\A r \in short_urls : r \in short_urls']_vars
    /\ [][\A r \in short_urls :
             (LookupStep /\ lookup_out'.code = r.short_code
                         /\ lookup_out'.outcome # "Internal")
                => (lookup_out'.outcome = "Found"
                    /\ lookup_out'.url = r.original_url)]_vars

\* C11 witness: after a length was persisted, rows of two code lengths are
\* in the table, both issued, and a lookup has found the shorter code
C11_Witness ==
    /\ settings # <<>>
    /\ \E r1, r2 \in short_urls :
          /\ Len(r1.short_code) < Len(r2.short_code)
          /\ BagIn(<<r1.short_code, r1.original_url>>, issued)
          /\ BagIn(<<r2.short_code, r2.original_url>>, issued)
          /\ lookup_out.outcome = "Found"
          /\ lookup_out.code = r1.short_code
          /\ lookup_out.url = r1.original_url

\* C12 (length is at least 1, default 4): in every reachable state the
\* length a read obtains is an integer >= 1 (the persisted text always
\* parses), every call holds such a length, and while no setting has been
\* persisted the length is 4: every candidate, every row and every code
\* returned so far, the first one included, has exactly 4 characters.
C12_LengthAtLeastOne ==
    /\ StoredLength >= 1
    /\ settings # <<>> => ParseUsize(settings) >= 1
    /\ \A p \in Procs :
          pc[p] \in {"insert", "save"} => short_code_length[p] >= 1
    /\ settings = <<>> =>
          /\ StoredLength = DEFAULT_SHORT_CODE_LENGTH
          /\ \A r \in short_urls :
                Len(r.short_code) = DEFAULT_SHORT_CODE_LENGTH
          /\ \A p \in Procs :
                /\ pc[p] = "insert" =>
                      Len(short_code[p]) = DEFAULT_SHORT_CODE_LENGTH
                /\ result[p].tag = "Ok" =>
                      Len(result[p].code) = DEFAULT_SHORT_CODE_LENGTH

\* C12 witness: the first register call on the empty registry is about to
\* return a code of 4 characters, no setting persisted
C12_Witness ==
    \E p \in Procs :
       /\ calls[p] = 1
       /\ \A q \in Procs \ {p} : calls[q] = 0
       /\ settings = <<>>
       /\ result[p].tag = "Ok"
       /\ Len(result[p].code) = DEFAULT_SHORT_CODE_LENGTH
       /\ Cardinality(short_urls) = 1

\* C13 (race for one candidate): when two register calls hold the same
\* candidate and it is not in the table, the INSERT that the store executes
\* first is Reserved (unless the statement itself fails) and leaves the
\* other call with its candidate; the INSERT of the other call, executed
\* while the winner has not yet returned, is a Conflict (unless the
\* statement itself fails) and that call goes on to its next attempt; at
\* no time have two calls reserved the same code.
C13_OneWinner ==
    /\ [](\A p, q \in Procs :
             (p # q /\ result[p].tag = "Ok") => result[q] # result[p])
    /\ [][\A p, q \in Procs :
             (/\ p # q
              /\ pc[p] = "insert" /\ pc[q] = "insert"
              /\ short_code[p] = short_code[q]
              /\ \A r \in short_urls : r.short_code # short_code[p]
              /\ InsertStep(p)
              /\ store_reply'[p] # "InsertErr")
                => /\ store_reply'[p] = "Reserved"
                   /\ result'[p] = OkResult(short_code[p])
                   /\ pc'[q] = "insert"
                   /\ short_code'[q] = short_code[q]]_vars
    /\ [][\A p, q \in Procs :
             (/\ p # q
              /\ result[p].tag = "Ok"
              /\ pc[q] = "insert"
              /\ short_code[q] = result[p].code
              /\ InsertStep(q)
              /\ store_reply'[q] # "InsertErr")
                => /\ store_reply'[q] = "Conflict"
                   /\ result'[q] = NoResult
                   /\ attempt'[q] = attempt[q] + 1
                   /\ pc'[q] \in {"insert", "save"}]_vars

\* C13 witness: on a registry holding one row, the call that inserted it
\* has not yet returned and the other call has met its first conflict
C13_Witness ==
    \E p, q \in Procs :
       /\ p # q
       /\ pc[p] = "done"
       /\ store_reply[p] = "Reserved"
       /\ short_urls = {[short_code |-> result[p].code,
                         original_url |-> original_url[p]]}
       /\ pc[q] = "insert"
       /\ store_reply[q] = "Conflict"
       /\ attempt[q] = 1
       /\ conflicts[q] = 1

\* C14 (stale read): a call that finishes a saturated round at a length L
\* below the persisted one (another caller has grown it meanwhile) leaves
\* the newer value in place when it executes its own length write, and its
\* next read obtains the persisted value, so what it observes after the
\* extra round is the grown value.
C14_StaleReadObservesGrowth ==
    /\ [][\A p \in Procs :
             (/\ pc[p] = "save" /\ pc'[p] = "read"
              /\ short_code_length[p] < StoredLength)
                => StoredLength' = StoredLength]_vars
    /\ [][\A p \in Procs :
             (pc[p] = "read" /\ pc'[p] = "insert")
                => short_code_length'[p] = StoredLength]_vars

\* C15 (growth from one length is idempotent): when two calls have both
\* read L and both finished a saturated round, the length write executed
\* first persists L + 1 and the one executed second, with no other write in
\* between, leaves it at L + 1, whichever call writes first.
C15_GrowthIdempotent ==
    /\ [][\A p, q \in Procs :
             (/\ p # q
              /\ pc[p] = "save" /\ pc[q] = "save"
              /\ short_code_length[p] = short_code_length[q]
              /\ pc'[p] = "read" /\ store_reply'[p] = "WriteOk")
                => /\ StoredLength' = short_code_length[p] + 1
                   /\ pc'[q] = "save"
                   /\ short_code_length'[q] = short_code_length[q]]_vars
    /\ [][\A p, q \in Procs :
             (/\ p # q
              /\ pc[p] = "read" /\ store_reply[p] = "WriteOk"
              /\ pc[q] = "save"
              /\ short_code_length[p] = short_code_length[q]
              /\ StoredLength = short_code_length[p] + 1
              /\ pc'[q] = "read" /\ store_reply'[q] = "WriteOk")
                => StoredLength' = short_code_length[q] + 1]_vars

\* C15 witness: both calls have read 4, met three conflicts and written;
\* the setting is 5
C15_Witness ==
    /\ \A p \in Procs :
          /\ pc[p] = "read"
          /\ store_reply[p] = "WriteOk"
          /\ short_code_length[p] = DEFAULT_SHORT_CODE_LENGTH
          /\ conflicts[p] = ATTEMPTS_PER_ROUND
    /\ StoredLength = DEFAULT_SHORT_CODE_LENGTH + 1

\* C16 (length read fresh every round): a call enters a round only through
\* a read, which hands it the length persisted at that moment (one grown
\* by another caller included); the round keeps that length, holds at most
\* 3 candidates, each of exactly that length, so a code returned from the
\* round has that length; after the third conflict the call writes and
\* then reads again.
C16_FreshReadEveryRound ==
    /\ [](\A p \in Procs :
             /\ pc[p] = "insert" =>
                   /\ attempt[p] < ATTEMPTS_PER_ROUND
                   /\ Len(short_code[p]) = short_code_length[p]
             /\ pc[p] = "save" => attempt[p] = ATTEMPTS_PER_ROUND)
    /\ [][\A p \in Procs :
             /\ (pc[p] # "insert" /\ pc'[p] = "insert")
                   => /\ pc[p] = "read"
                      /\ attempt'[p] = 0
                      /\ short_code_length'[p] = StoredLength
             /\ (pc[p] = "insert" /\ pc'[p] \in {"insert", "save"})
                   => short_code_length'[p] = short_code_length[p]
             /\ (InsertStep(p) /\ result'[p].tag = "Ok")
                   => Len(result'[p].code) = short_code_length[p]
             /\ (pc[p] = "save" /\ pc'[p] # "save")
                   => pc'[p] = "read"]_vars

\* C16 witness: a call in its first round, with no conflict behind it,
\* holds a candidate of the length another call has grown the setting to
C16_Witness ==
    \E p \in Procs :
       /\ pc[p] = "insert"
       /\ calls[p] = 1
       /\ conflicts[p] = 0
       /\ short_code_length[p] = DEFAULT_SHORT_CODE_LENGTH + 1
       /\ Len(short_code[p]) = DEFAULT_SHORT_CODE_LENGTH + 1

\* C17 (one record per successful allocation): the number of rows equals
\* the number of register calls that have reserved a code (those that have
\* returned Ok and those about to); a call is about to return Ok(c)
\* exactly when its INSERT was Reserved, and then the row (c, its URL) is in
\* the table; a step adds at most the one row of the call that becomes Ok
\* in it, and a step in which a call fails with Internal adds none.
C17_OneRecordPerSuccess ==
    /\ [](Cardinality(short_urls) =
             BagCardinality(issued)
                + Cardinality({p \in Procs : result[p].tag = "Ok"}))
    /\ [](\A p \in Procs :
             /\ result[p].tag = "Ok" <=> store_reply[p] = "Reserved"
             /\ result[p].tag = "Ok" =>
                   [short_code |-> result[p].code,
                    original_url |-> original_url[p]] \in short_urls
             /\ result[p] = InternalError =>
                   store_reply[p] \in {"ReadErr", "InsertErr"})
    /\ [][short_urls' # short_urls =>
             \E p \in Procs :
                /\ result[p] = NoResult
                /\ result'[p] = OkResult(short_code[p])
                /\ short_urls' = short_urls \cup
                      {[short_code |-> short_code[p],
                        original_url |-> original_url[p]]}
                /\ Cardinality(short_urls') = Cardinality(short_urls) + 1]_vars
    /\ [][\A p \in Procs :
             (result[p] = NoResult /\ result'[p] = InternalError)
                => short_urls' = short_urls]_vars

\* C17 witness: two rows; an earlier call has returned its code, one call
\* is about to return Ok after conflicts, another has failed at its INSERT
C17_Witness ==
    /\ Cardinality(short_urls) = 2
    /\ BagCardinality(issued) = 1
    /\ \E p, q \in Procs :
          /\ result[p].tag = "Ok" /\ conflicts[p] > 0
          /\ result[q] = InternalError /\ store_reply[q] = "InsertErr"

\* C18 (the setting is written by the growth step only): a call stands
\* before the length write only right after the third conflict of a round;
\* a write that succeeds persists exactly that round's read length + 1;
\* any change of the setting is such a write; a call that returns from a
\* read or from an INSERT (Reserved or Internal, first round included)
\* leaves the setting as it is.
C18_WrittenByGrowthOnly ==
    /\ [](\A p \in Procs :
             pc[p] = "save" =>
                /\ store_reply[p] = "Conflict"
                /\ attempt[p] = ATTEMPTS_PER_ROUND
                /\ conflicts[p] >= ATTEMPTS_PER_ROUND)
    /\ [][\A p \in Procs :
             (pc[p] = "save" /\ store_reply'[p] = "WriteOk")
                => settings' = to_string(short_code_length[p] + 1)]_vars
    /\ [][settings' # settings =>
             \E p \in Procs :
                /\ pc[p] = "save"
                /\ pc'[p] = "read"
                /\ store_reply'[p] = "WriteOk"
                /\ StoredLength' = short_code_length[p] + 1]_vars
    /\ [][\A p \in Procs :
             (pc[p] \in {"read", "insert"} /\ pc'[p] # pc[p])
                => settings' = settings]_vars

\* C18 witness: one call has written 5 after three conflicts at length 4
\* while another has reserved a code in its first round without a conflict
C18_Witness ==
    \E p, q \in Procs :
       /\ pc[p] = "read"
       /\ store_reply[p] = "WriteOk"
       /\ short_code_length[p] = DEFAULT_SHORT_CODE_LENGTH
       /\ settings = to_string(DEFAULT_SHORT_CODE_LENGTH + 1)
       /\ pc[q] = "done"
       /\ result[q].tag = "Ok"
       /\ conflicts[q] = 0

\* C19 (bounded response without contention): a register call that runs
\* alone on a store without faults, entered when no stored code is longer
\* than the length setting, meets at most 3 conflicts (so it makes at most 4
\* INSERT attempts), stands before the length write only with exactly 3
\* conflicts behind it (so it writes at most once, and that write raises
\* the setting by one), and returns a code, whose length is the setting's
\* value at that moment: the one it was entered with, or that plus 1.
C19_BoundedResponse ==
    /\ [](\A p \in Procs :
             /\ conflicts[p] <= ATTEMPTS_PER_ROUND
             /\ pc[p] = "save" => conflicts[p] = ATTEMPTS_PER_ROUND
             /\ result[p] # InternalError
             /\ result[p].tag = "Ok" => Len(result[p].code) = StoredLength)
    /\ [](\A r \in short_urls : Len(r.short_code) <= StoredLength)
    /\ [][settings' # settings =>
             /\ StoredLength' = StoredLength + 1
             /\ \E p \in Procs :
                   pc[p] = "save" /\ short_code_length[p] = StoredLength]_vars
    /\ \A p \in Procs : (pc[p] = "read") ~> (result[p].tag = "Ok")

\* C19 witness: a call that was entered with every code of the current
\* length taken is about to return a code one longer, after exactly three
\* conflicts and one length write
C19_Witness ==
    \E p \in Procs :
       /\ result[p].tag = "Ok"
       /\ conflicts[p] = ATTEMPTS_PER_ROUND
       /\ StoredLength > DEFAULT_SHORT_CODE_LENGTH
       /\ Len(result[p].code) = StoredLength
       /\ \A c \in generate_short_code(StoredLength - 1) :
             \E r \in short_urls : r.short_code = c

\* ids of the tasks in the list
ListedIds == {tasks[i].id : i \in DOMAIN tasks}

\* C20 (todo list identifiers): starting from TaskList::new(), after any
\* sequence of add, remove and complete commands, the tasks of the list
\* have pairwise distinct ids, next_task_id is greater than every id in the
\* list and never goes down, no task in the list carries an id that was
\* removed, an added task gets an id that is neither in the list nor
\* removed, and a remove or a complete of an id that is not in the list
\* leaves the list and next_task_id as they are.
C20_TaskIds ==
    /\ [](\A i, j \in DOMAIN tasks : tasks[i].id = tasks[j].id => i = j)
    /\ [](\A i \in DOMAIN tasks : tasks[i].id < next_task_id)
    /\ [](ListedIds \cap removed_ids = {})
    /\ [][/\ next_task_id' >= next_task_id
          /\ (ListedIds' \ ListedIds) \cap (ListedIds \cup removed_ids) = {}
          /\ Len(tasks') > Len(tasks) =>
                tasks'[Len(tasks')].id \notin (ListedIds \cup removed_ids)]_vars
    /\ [][\A id \in TaskIds :
             (id \notin ListedIds /\ (RemoveTask(id) \/ CompleteTask(id)))
                => UNCHANGED <<tasks, next_task_id>>]_vars

\* C20 witness: a task was added after an id below it was removed, another
\* task is completed, and the list holds at least two tasks
C20_Witness ==
    /\ Len(tasks) >= 2
    /\ \E i \in DOMAIN tasks : tasks[i].completed
    /\ \E r \in removed_ids, i \in DOMAIN tasks :
          /\ tasks[i].id > r
          /\ \A k \in removed_ids : k <= r
          /\ tasks[i].id = next_task_id - 1
          /\ Len(tasks) + Cardinality(removed_ids) = next_task_id - 1

=============================================================================
